---- MODULE Spec2Model ----
(***************************************************************************)
(* A model of notify2.py: the module-level connection state (initted,      *)
(* appname, _have_mainloop, dbus_obj), the notifications registry, the two *)
(* signal handlers and the Notification objects.                           *)
(*                                                                         *)
(* Every action is one call of one function of the module.  The variable   *)
(* `result` records what the call just made did that a caller or the       *)
(* notification server can observe: the exception it raised, the D-Bus     *)
(* method calls it sent, and the user callbacks it invoked.                *)
(***************************************************************************)
EXTENDS Integers, Sequences, FiniteSets, TLC

\* ------------------------------------------------------------------ bounds

\* Ids the notification server hands out are 1..MaxId (0 is "not shown").
MaxId == 2
\* Signal receivers the session bus holds at most (init() adds one pair per
\* call with a main loop; nothing ever removes one).
MaxReceivers == 2

\* ------------------------------------------------------- program constants

URGENCY_LOW == 0
URGENCY_NORMAL == 1
URGENCY_CRITICAL == 2
urgency_levels == {URGENCY_LOW, URGENCY_NORMAL, URGENCY_CRITICAL}

\* --------------------------------------------------------------- universes

\* The Notification objects the caller has constructed (object identities).
Notifs == {"n1", "n2"}
ServerIds == 1..MaxId
\* init()'s mainloop parameter: None, the tokens 'glib' and 'qt', or a loop
\* object.
Mainloops == {"None", "glib", "qt", "loop"}
AppNames == {"app"}
\* Action keys add_action() is called with, and keys a signal may carry.
ActionKeys == {"ok"}
SignalKeys == {"ok", "stale"}
Labels == {"OK"}
\* User callbacks; the ones in Raising raise when they are called.
Callbacks == {"on_event", "on_event_raises"}
Raising == {"on_event_raises"}
UserData == {"None", "data"}
Reasons == {1, 2}
\* Values set_urgency() is called with.
Levels == -1..3
HintKeys == {"urgency", "x-hint"}
HintInts == {1}
\* Values set_hint_byte() is called with.
ByteValues == {1, 256}
Categories == {"im"}
\* Event names connect() is called with.
Events == {"closed", "opened"}

Stub == "UninittedDbusObj"
Proxy == "ProxyObject"

EmptyMap == [k \in {} |-> 0]

VARIABLES
    initted,                \* module global
    appname,                \* module global
    _have_mainloop,         \* module global
    dbus_obj,               \* module global: Stub or Proxy
    default_main_loop,      \* dbus.get_default_main_loop() is set
    receivers,              \* handler pairs connect_to_signal has subscribed
    notifications_registry, \* module global: id -> Notification
    id,                     \* Notification.id, per object
    actions,                \* Notification.actions, per object
    Notification_closed_callback, \* Notification._closed_callback, per object
    hints,                  \* Notification.hints, per object
    result                  \* what the last call did (see above)

conn == <<initted, appname, _have_mainloop, dbus_obj, receivers>>
objs == <<id, actions, Notification_closed_callback, hints>>
vars == <<initted, appname, _have_mainloop, dbus_obj, default_main_loop,
          receivers, notifications_registry, id, actions,
          Notification_closed_callback, hints, result>>

\* What a call did: op, the notification, id and key it was about ("None", 0
\* and "" when it has none), the exception raised ("None" when it returned),
\* the outbound calls sent, the user callbacks invoked.
Result(op, n, nid, key, raised, sent, invoked) ==
    [op |-> op, n |-> n, nid |-> nid, key |-> key, args |-> <<>>,
     raised |-> raised, sent |-> sent, invoked |-> invoked]

\* The same for a call with further arguments.
ResultOf(op, n, key, args, raised) ==
    [op |-> op, n |-> n, nid |-> 0, key |-> key, args |-> args,
     raised |-> raised, sent |-> <<>>, invoked |-> <<>>]

MethodCall(method, arg) == [method |-> method, id |-> arg, app |-> appname]

Init ==
    /\ initted = FALSE
    /\ appname = ""
    /\ _have_mainloop = FALSE
    /\ dbus_obj = Stub
    /\ default_main_loop = FALSE
    /\ receivers = 0
    /\ notifications_registry = EmptyMap
    /\ id = [n \in Notifs |-> 0]
    /\ actions = [n \in Notifs |-> EmptyMap]
    /\ Notification_closed_callback = [n \in Notifs |-> "no_op"]
    /\ hints = [n \in Notifs |-> EmptyMap]
    /\ result = Result("import", "None", 0, "", "None", <<>>, <<>>)

\* ------------------------------------------------------ connection manager

\* Mutant of getattr: the handle is None before init(), and its attributes
\* are missing.
getattr_of_none(obj) == IF obj = Stub THEN "AttributeError" ELSE "method"

\* UninittedDbusObj.__getattr__ raises UninittedError for every attribute; a
\* proxy object hands back the remote method.
getattr(obj) == IF obj = Stub THEN "UninittedError" ELSE "method"

\* dbus.set_default_main_loop(), called by the application (or by a loop
\* integration constructed with set_as_default).
set_default_main_loop(b) ==
    /\ default_main_loop' = b
    /\ result' = Result("set_default_main_loop", "None", 0, "", "None", <<>>, <<>>)
    /\ UNCHANGED <<conn, notifications_registry, objs>>

\* The tokens 'glib' and 'qt' are replaced by a loop object of that kind.
Mainloop(mainloop) == IF mainloop \in {"glib", "qt"} THEN "loop" ELSE mainloop

\* `if mainloop or dbus.get_default_main_loop()`
HaveLoop(mainloop) == Mainloop(mainloop) # "None" \/ default_main_loop

\* init(app_name, mainloop) when the bus and the service are reached.
init(app_name, mainloop) ==
    /\ HaveLoop(mainloop) => receivers < MaxReceivers
    /\ dbus_obj' = Proxy
    /\ appname' = app_name
    /\ initted' = TRUE
    /\ IF HaveLoop(mainloop)
         THEN /\ _have_mainloop' = TRUE
              /\ receivers' = receivers + 1
         ELSE UNCHANGED <<_have_mainloop, receivers>>
    /\ result' = Result("init", "None", 0, Mainloop(mainloop), "None", <<>>, <<>>)
    /\ UNCHANGED <<default_main_loop, notifications_registry, objs>>

\* init() when dbus.SessionBus() or bus.get_object() raises: no global has
\* been assigned yet.
init_fails(app_name, mainloop) ==
    /\ result' = Result("init", "None", 0, Mainloop(mainloop), "DBusException",
                        <<>>, <<>>)
    /\ UNCHANGED <<conn, default_main_loop, notifications_registry, objs>>

\* Mutant of uninit: the registry is emptied too.
uninit_clears_registry ==
    /\ initted' = FALSE
    /\ _have_mainloop' = FALSE
    /\ dbus_obj' = Stub
    /\ notifications_registry' = EmptyMap
    /\ result' = Result("uninit", "None", 0, "", "None", <<>>, <<>>)
    /\ UNCHANGED <<appname, receivers, default_main_loop, objs>>

\* Mutant of uninit: _have_mainloop is not reset.
uninit_keeps_mainloop ==
    /\ initted' = FALSE
    /\ dbus_obj' = Stub
    /\ result' = Result("uninit", "None", 0, "", "None", <<>>, <<>>)
    /\ UNCHANGED <<appname, _have_mainloop, receivers, default_main_loop,
                   notifications_registry, objs>>

uninit ==
    /\ initted' = FALSE
    /\ _have_mainloop' = FALSE
    /\ dbus_obj' = Stub
    /\ result' = Result("uninit", "None", 0, "", "None", <<>>, <<>>)
    /\ UNCHANGED <<appname, receivers, default_main_loop,
                   notifications_registry, objs>>

\* get_server_caps() and get_server_info(): one call through dbus_obj.
ServerQuery(op, method) ==
    LET attr == getattr(dbus_obj) IN
    /\ IF attr # "method"
         THEN result' = Result(op, "None", 0, "", attr, <<>>, <<>>)
         ELSE \E raised \in {"None", "DBusException"} :
                result' = Result(op, "None", 0, "", raised,
                                 <<MethodCall(method, 0)>>, <<>>)
    /\ UNCHANGED <<conn, default_main_loop, notifications_registry, objs>>

get_server_caps == ServerQuery("get_server_caps", "GetCapabilities")

get_server_info == ServerQuery("get_server_info", "GetServerInformation")

\* ------------------------------------------------------------ notifications

\* Mutant of IdAfterShow: the id is stored by the first show() only.
IdAfterShow_first_only(old, nid) == IF old # 0 THEN old ELSE nid

\* `self.id = int(nid)`: the id the server returned replaces the old one.
IdAfterShow(old, nid) == nid

\* Mutant of register: the entries the notification had under other ids are
\* dropped.
register_moves(reg, nid, n) ==
    [k \in {j \in DOMAIN reg : reg[j] # n} \cup {nid} |->
        IF k = nid THEN n ELSE reg[k]]

\* Mutant of register: an id that is in the registry keeps its entry
\* (setdefault).
register_setdefault(reg, nid, n) ==
    [k \in DOMAIN reg \cup {nid} |-> IF k \in DOMAIN reg THEN reg[k] ELSE n]

\* `notifications_registry[self.id] = self`
register(reg, nid, n) ==
    [k \in DOMAIN reg \cup {nid} |-> IF k = nid THEN n ELSE reg[k]]

\* Mutant of unregister: the registry is emptied.
unregister_clear(reg, nid) == EmptyMap

\* `del notifications_registry[nid]`
unregister(reg, nid) == [k \in DOMAIN reg \ {nid} |-> reg[k]]

\* Mutant of Notification_show: a failed Notify is sent a second time.
Notification_show_retries(n) ==
    LET attr == getattr(dbus_obj)
        call == MethodCall("Notify", id[n]) IN
    /\ IF attr # "method"
         THEN /\ result' = Result("show", n, 0, "", attr, <<>>, <<>>)
              /\ UNCHANGED <<id, notifications_registry>>
         ELSE \/ \E nid \in ServerIds :
                   /\ id' = [id EXCEPT ![n] = IdAfterShow(id[n], nid)]
                   /\ notifications_registry' =
                        IF _have_mainloop
                          THEN register(notifications_registry, id'[n], n)
                          ELSE notifications_registry
                   /\ result' = Result("show", n, nid, "", "None", <<call>>, <<>>)
              \/ /\ result' = Result("show", n, 0, "", "DBusException",
                                     <<call, call>>, <<>>)
                 /\ UNCHANGED <<id, notifications_registry>>
    /\ UNCHANGED <<conn, default_main_loop, actions,
                   Notification_closed_callback, hints>>

\* Mutant of Notification_show: the notification is registered whether
\* there is a main loop or not.
Notification_show_registers_always(n) ==
    LET attr == getattr(dbus_obj)
        call == MethodCall("Notify", id[n]) IN
    /\ IF attr # "method"
         THEN /\ result' = Result("show", n, 0, "", attr, <<>>, <<>>)
              /\ UNCHANGED <<id, notifications_registry>>
         ELSE \/ \E nid \in ServerIds :
                   /\ id' = [id EXCEPT ![n] = IdAfterShow(id[n], nid)]
                   /\ notifications_registry' =
                        register(notifications_registry, id'[n], n)
                   /\ result' = Result("show", n, nid, "", "None", <<call>>, <<>>)
              \/ /\ result' = Result("show", n, 0, "", "DBusException",
                                     <<call>>, <<>>)
                 /\ UNCHANGED <<id, notifications_registry>>
    /\ UNCHANGED <<conn, default_main_loop, actions,
                   Notification_closed_callback, hints>>

\* Notification.show(): Notify carries the current id as replaces_id.
Notification_show(n) ==
    LET attr == getattr(dbus_obj)
        call == MethodCall("Notify", id[n]) IN
    /\ IF attr # "method"
         THEN /\ result' = Result("show", n, 0, "", attr, <<>>, <<>>)
              /\ UNCHANGED <<id, notifications_registry>>
         ELSE \/ \E nid \in ServerIds :
                   /\ id' = [id EXCEPT ![n] = IdAfterShow(id[n], nid)]
                   /\ notifications_registry' =
                        IF _have_mainloop
                          THEN register(notifications_registry, id'[n], n)
                          ELSE notifications_registry
                   /\ result' = Result("show", n, nid, "", "None", <<call>>, <<>>)
              \/ /\ result' = Result("show", n, 0, "", "DBusException",
                                     <<call>>, <<>>)
                 /\ UNCHANGED <<id, notifications_registry>>
    /\ UNCHANGED <<conn, default_main_loop, actions,
                   Notification_closed_callback, hints>>

\* Mutant of Notification_close: the id is not looked at.
Notification_close_unshown(n) ==
    LET attr == getattr(dbus_obj)
        call == MethodCall("CloseNotification", id[n]) IN
    /\ IF attr # "method"
         THEN result' = Result("close", n, id[n], "", attr, <<>>, <<>>)
         ELSE \E raised \in {"None", "DBusException"} :
                result' = Result("close", n, id[n], "", raised, <<call>>, <<>>)
    /\ UNCHANGED <<conn, default_main_loop, notifications_registry, objs>>

\* Notification.close(): nothing at all while id is 0.
Notification_close(n) ==
    LET attr == getattr(dbus_obj)
        call == MethodCall("CloseNotification", id[n]) IN
    /\ IF id[n] = 0
         THEN result' = Result("close", n, 0, "", "None", <<>>, <<>>)
         ELSE IF attr # "method"
           THEN result' = Result("close", n, id[n], "", attr, <<>>, <<>>)
           ELSE \E raised \in {"None", "DBusException"} :
                  result' = Result("close", n, id[n], "", raised, <<call>>, <<>>)
    /\ UNCHANGED <<conn, default_main_loop, notifications_registry, objs>>

\* Notification.add_action(): `self.actions[action] = (label, callback,
\* user_data)`.
Notification_add_action(n, action, label, callback, user_data) ==
    /\ actions' = [actions EXCEPT ![n] =
          [k \in DOMAIN @ \cup {action} |->
              IF k = action
                THEN [label |-> label, callback |-> callback,
                      user_data |-> user_data]
                ELSE @[k]]]
    /\ result' = ResultOf("add_action", n, action,
                           <<label, callback, user_data>>, "None")
    /\ UNCHANGED <<conn, default_main_loop, notifications_registry, id,
                   Notification_closed_callback, hints>>

\* Mutant of Notification_connect: the event name is not looked at.
Notification_connect_any_event(n, event, callback) ==
    /\ Notification_closed_callback' =
         [Notification_closed_callback EXCEPT ![n] = callback]
    /\ result' = ResultOf("connect", n, event, <<callback>>, "None")
    /\ UNCHANGED <<conn, default_main_loop, notifications_registry, id,
                   actions, hints>>

\* Notification.connect(): 'closed' is the only event.
Notification_connect(n, event, callback) ==
    /\ IF event # "closed"
         THEN /\ result' = ResultOf("connect", n, event, <<callback>>,
                                     "ValueError")
              /\ UNCHANGED Notification_closed_callback
         ELSE /\ Notification_closed_callback' =
                   [Notification_closed_callback EXCEPT ![n] = callback]
              /\ result' = ResultOf("connect", n, event, <<callback>>, "None")
    /\ UNCHANGED <<conn, default_main_loop, notifications_registry, id,
                   actions, hints>>

\* ------------------------------------------------------------ event router

\* A call of a callable: the function, the object it is bound to ("None" for
\* a plain function), the arguments of the call, and the registry as it is
\* while the callable runs.
Invocation(fn, bound, args) ==
    [fn |-> fn, bound |-> bound, args |-> args,
     registry |-> notifications_registry]

\* What a call of fn raises.
Raised(fn) == IF fn \in Raising THEN "CallbackError" ELSE "None"

\* Mutant of Notification_action_callback: a key that is not in self.actions
\* falls back to an action that is.
Notification_action_callback_fallback(n, action) ==
    IF actions[n] = EmptyMap
      THEN <<>>
      ELSE LET key == IF action \in DOMAIN actions[n]
                        THEN action
                        ELSE CHOOSE k \in DOMAIN actions[n] : TRUE
               a == actions[n][key] IN
           IF a.user_data = "None"
             THEN <<Invocation(a.callback, "None", <<n, action>>)>>
             ELSE <<Invocation(a.callback, "None", <<n, action, a.user_data>>)>>

\* Mutant of Notification_action_callback: the user data is passed also when
\* it is None.
Notification_action_callback_with_none(n, action) ==
    IF action \notin DOMAIN actions[n]
      THEN <<>>
      ELSE LET a == actions[n][action] IN
           <<Invocation(a.callback, "None", <<n, action, a.user_data>>)>>

\* Notification._action_callback(action): the callbacks it calls.  A key
\* that is not in self.actions is a KeyError, caught: nothing is called.
Notification_action_callback(n, action) ==
    IF action \notin DOMAIN actions[n]
      THEN <<>>
      ELSE LET a == actions[n][action] IN
           IF a.user_data = "None"
             THEN <<Invocation(a.callback, "None", <<n, action>>)>>
             ELSE <<Invocation(a.callback, "None", <<n, action, a.user_data>>)>>

\* The exception a sequence of invocations ends with.
RaisedBy(invoked) ==
    IF invoked = <<>> THEN "None" ELSE Raised(invoked[Len(invoked)].fn)

\* _action_callback(nid, action): the bus calls it once per subscribed
\* receiver for an ActionInvoked signal.
_action_callback(nid, action) ==
    /\ receivers > 0
    /\ IF nid \notin DOMAIN notifications_registry
         THEN result' = Result("ActionInvoked", "None", nid, action, "KeyError",
                               <<>>, <<>>)
         ELSE LET n == notifications_registry[nid]
                  invoked == Notification_action_callback(n, action) IN
              result' = Result("ActionInvoked", n, nid, action,
                               RaisedBy(invoked), <<>>, invoked)
    /\ UNCHANGED <<conn, default_main_loop, notifications_registry, objs>>

\* `n._closed_callback(n)`: the class attribute no_op is looked up through the
\* instance and so is bound to it; a callback stored by connect() is an
\* instance attribute and is called as it is.
ClosedInvocation(n) ==
    LET fn == Notification_closed_callback[n] IN
    Invocation(fn, IF fn = "no_op" THEN n ELSE "None", <<n>>)

\* Mutant of RegistryAfterClosed: the entry is deleted in a finally clause.
RegistryAfterClosed_finally(reg, nid, raised) == unregister(reg, nid)

\* The registry after _closed_callback called the notification's callback:
\* the entry is deleted when the callback returned.
RegistryAfterClosed(reg, nid, raised) ==
    IF raised = "None" THEN unregister(reg, nid) ELSE reg

\* _closed_callback(nid, reason): the bus calls it once per subscribed
\* receiver for a NotificationClosed signal.
_closed_callback(nid, reason) ==
    /\ receivers > 0
    /\ IF nid \notin DOMAIN notifications_registry
         THEN /\ result' = Result("NotificationClosed", "None", nid, "",
                                  "KeyError", <<>>, <<>>)
              /\ UNCHANGED notifications_registry
         ELSE LET n == notifications_registry[nid]
                  inv == ClosedInvocation(n) IN
              /\ notifications_registry' =
                   RegistryAfterClosed(notifications_registry, nid, Raised(inv.fn))
              /\ result' = Result("NotificationClosed", n, nid, "",
                                  Raised(inv.fn), <<>>, <<inv>>)
    /\ UNCHANGED <<conn, default_main_loop, objs>>

\* ------------------------------------------------------------------- hints

\* Mutant of Byte: the value is stored as the plain int it was given as.
Byte_plain(v) == [type |-> "int32", value |-> v]

\* A hint value as it goes over the wire: dbus.Byte(v) is a byte, a plain
\* Python int or str is marshalled by its own type.
Byte(v) == [type |-> "byte", value |-> v]
Int32(v) == [type |-> "int32", value |-> v]
String(t) == [type |-> "string", text |-> t]

\* `self.hints[key] = value`
SetItem(h, key, value) ==
    [k \in DOMAIN h \cup {key} |-> IF k = key THEN value ELSE h[k]]

HintFrame == <<conn, default_main_loop, notifications_registry, id, actions,
               Notification_closed_callback>>

\* Notification.set_hint(key, value), also set_hint_int32.
Notification_set_hint(n, key, v) ==
    /\ hints' = [hints EXCEPT ![n] = SetItem(@, key, Int32(v))]
    /\ result' = ResultOf("set_hint", n, key, <<v>>, "None")
    /\ UNCHANGED HintFrame

\* Notification.set_hint_byte(key, value): dbus.Byte() takes 0..255.
Notification_set_hint_byte(n, key, v) ==
    /\ IF v \in 0..255
         THEN /\ hints' = [hints EXCEPT ![n] = SetItem(@, key, Byte(v))]
              /\ result' = ResultOf("set_hint_byte", n, key, <<v>>, "None")
         ELSE /\ result' = ResultOf("set_hint_byte", n, key, <<v>>, "ValueError")
              /\ UNCHANGED hints
    /\ UNCHANGED HintFrame

\* Notification.set_urgency(level)
Notification_set_urgency(n, level) ==
    /\ IF level \notin urgency_levels
         THEN /\ result' = ResultOf("set_urgency", n, "urgency", <<level>>,
                                    "ValueError")
              /\ UNCHANGED hints
         ELSE /\ hints' = [hints EXCEPT ![n] = SetItem(@, "urgency", Byte(level))]
              /\ result' = ResultOf("set_urgency", n, "urgency", <<level>>, "None")
    /\ UNCHANGED HintFrame

\* Notification.set_category(category)
Notification_set_category(n, category) ==
    /\ hints' = [hints EXCEPT ![n] = SetItem(@, "category", String(category))]
    /\ result' = ResultOf("set_category", n, "category", <<category>>, "None")
    /\ UNCHANGED HintFrame

\* ---------------------------------------------------------- specifications

\* The connection, show() and close(), the registry and the event router,
\* on notifications nothing was connected to.
Next ==
    \/ \E b \in BOOLEAN : set_default_main_loop(b)
    \/ \E a \in AppNames, m \in Mainloops : init(a, m)
    \/ \E a \in AppNames, m \in Mainloops : init_fails(a, m)
    \/ uninit
    \/ get_server_caps
    \/ get_server_info
    \/ \E n \in Notifs : Notification_show(n)
    \/ \E n \in Notifs : Notification_close(n)
    \/ \E nid \in ServerIds, k \in SignalKeys : _action_callback(nid, k)
    \/ \E nid \in ServerIds, r \in Reasons : _closed_callback(nid, r)

Spec == Init /\ [][Next]_vars

\* Closed events on notifications with connected callbacks.
NextClosed ==
    \/ \E a \in AppNames, m \in Mainloops : init(a, m)
    \/ uninit
    \/ \E n \in Notifs : Notification_show(n)
    \/ \E n \in Notifs, e \in Events, c \in Callbacks :
          Notification_connect(n, e, c)
    \/ \E nid \in ServerIds, r \in Reasons : _closed_callback(nid, r)

SpecClosed == Init /\ [][NextClosed]_vars

\* Action events on notifications with actions.
NextActions ==
    \/ \E a \in AppNames, m \in Mainloops : init(a, m)
    \/ \E n \in Notifs : Notification_show(n)
    \/ \E n \in Notifs, k \in ActionKeys, l \in Labels, c \in Callbacks,
          u \in UserData : Notification_add_action(n, k, l, c, u)
    \/ \E nid \in ServerIds, k \in SignalKeys : _action_callback(nid, k)

SpecActions == Init /\ [][NextActions]_vars

\* The hints of the notifications.
NextHints ==
    \/ \E n \in Notifs, k \in HintKeys, v \in HintInts :
          Notification_set_hint(n, k, v)
    \/ \E n \in Notifs, k \in HintKeys, v \in ByteValues :
          Notification_set_hint_byte(n, k, v)
    \/ \E n \in Notifs, l \in Levels : Notification_set_urgency(n, l)
    \/ \E n \in Notifs, c \in Categories : Notification_set_category(n, c)

SpecHints == Init /\ [][NextHints]_vars

\* ------------------------------------------------------------------ claims

\* C1: while the connection is uninitialized, show(), close() on a
\* notification with id # 0, get_server_caps() and get_server_info() raise
\* UninittedError, send nothing, and leave every id and the registry as
\* they are.
C1_UninittedRaises ==
    [][(/\ ~initted
        /\ \/ result'.op \in {"show", "get_server_caps", "get_server_info"}
           \/ result'.op = "close" /\ id[result'.n] # 0)
       => /\ result'.raised = "UninittedError"
          /\ result'.sent = <<>>
          /\ UNCHANGED <<id, notifications_registry>>]_vars

\* C1 happens: close() of a shown notification after uninit().
C1_Witness ==
    /\ ~initted
    /\ result.op = "close"
    /\ id[result.n] # 0
    /\ result.raised = "UninittedError"

\* C2: dbus_obj is a proxy exactly when initted is true, and _have_mainloop
\* implies initted.
C2_ChannelIffInitted ==
    /\ (dbus_obj = Proxy) <=> initted
    /\ dbus_obj \in {Proxy, Stub}
    /\ _have_mainloop => initted

\* C2 happens: an init() that fails at the transport after an uninit() that
\* followed an init() with a main loop.
C2_Witness ==
    /\ result.op = "init"
    /\ result.raised = "DBusException"
    /\ ~initted
    /\ receivers > 0

\* C3: after a successful init(), _have_mainloop is true exactly when a main
\* loop was passed to that call or a default main loop was set.
C3_EventsIffLoop ==
    (result.op = "init" /\ result.raised = "None")
    => (_have_mainloop <=> (result.key # "None" \/ default_main_loop))

\* C3 as stated fails from init() with a loop followed by init() without.

\* C4: after a successful show() the object's id is the id the server
\* returned for that call; Notify carries the id the object had before the
\* call as replaces_id (0 before the first show), close() sends
\* CloseNotification for the object's id, and nothing but a successful show()
\* of that object changes its id.
C4_IdFollowsServer ==
    [][/\ (result'.op = "show" /\ result'.raised = "None")
          => /\ id'[result'.n] = result'.nid
             /\ result'.sent = <<[method |-> "Notify", id |-> id[result'.n],
                                  app |-> appname]>>
       /\ (result'.op = "close" /\ result'.sent # <<>>)
          => /\ Len(result'.sent) = 1
             /\ result'.sent[1].method = "CloseNotification"
             /\ result'.sent[1].id = id[result'.n]
       /\ \A n \in Notifs :
            id'[n] # id[n]
            => result'.op = "show" /\ result'.n = n /\ result'.raised = "None"]_vars

\* C4 happens: a second show() for which the server returned another id
\* than the one it was asked to replace.
C4_Witness ==
    /\ result.op = "show"
    /\ result.raised = "None"
    /\ result.sent[1].id # 0
    /\ result.sent[1].id # result.nid
    /\ id[result.n] = result.nid

\* C5: after a successful show() with _have_mainloop true, the registry maps
\* the returned id to the very object that was shown, whatever it mapped that
\* id to before.
C5_ShowRegisters ==
    (result.op = "show" /\ result.raised = "None" /\ _have_mainloop)
    => /\ result.nid \in DOMAIN notifications_registry
       /\ notifications_registry[result.nid] = result.n

\* C5 happens: n2 was shown and is registered under the id n1 holds too.
C5_Witness ==
    /\ result.op = "show"
    /\ result.raised = "None"
    /\ _have_mainloop
    /\ result.n = "n2"
    /\ id["n1"] = result.nid
    /\ notifications_registry[result.nid] = "n2"

\* C6: an ActionInvoked signal for an id that is not in the registry raises
\* nothing, calls no callback and leaves the registry as it is.
C6_UnknownActionSilent ==
    [][(result'.op = "ActionInvoked"
        /\ result'.nid \notin DOMAIN notifications_registry)
       => /\ result'.raised = "None"
          /\ result'.invoked = <<>>
          /\ UNCHANGED notifications_registry]_vars

\* C7: a NotificationClosed signal for an id that is not in the registry
\* raises nothing, calls no callback and leaves the registry as it is.
C7_UnknownClosedSilent ==
    [][(result'.op = "NotificationClosed"
        /\ result'.nid \notin DOMAIN notifications_registry)
       => /\ result'.raised = "None"
          /\ result'.invoked = <<>>
          /\ UNCHANGED notifications_registry]_vars

C9_ActionDispatch ==
    [][/\ result'.op = "add_action"
          => /\ actions'[result'.n][result'.key] =
                  [label |-> result'.args[1], callback |-> result'.args[2],
                   user_data |-> result'.args[3]]
             /\ \A n \in Notifs : \A k \in DOMAIN actions[n] :
                  (n # result'.n \/ k # result'.key)
                  => k \in DOMAIN actions'[n] /\ actions'[n][k] = actions[n][k]
       /\ actions' # actions => result'.op = "add_action"
       /\ (/\ result'.op = "ActionInvoked"
           /\ result'.nid \in DOMAIN notifications_registry
           /\ result'.key \in
                DOMAIN actions[notifications_registry[result'.nid]])
          => LET n == notifications_registry[result'.nid]
                 a == actions[n][result'.key] IN
             /\ Len(result'.invoked) = 1
             /\ result'.invoked[1].fn = a.callback
             /\ result'.invoked[1].args =
                  IF a.user_data = "None"
                    THEN <<n, result'.key>>
                    ELSE <<n, result'.key, a.user_data>>
             /\ UNCHANGED <<notifications_registry, id>>]_vars

\* C9 happens: a callback stored with user data was called with it.
C9_Witness ==
    /\ result.op = "ActionInvoked"
    /\ Len(result.invoked) = 1
    /\ result.invoked[1].args = <<result.n, "ok", "data">>
    /\ result.invoked[1].fn = actions[result.n]["ok"].callback

\* C10: set_urgency(level) with level outside {0, 1, 2} raises ValueError and
\* leaves the hints as they are; with level in {0, 1, 2} it stores the level
\* as a byte under "urgency" and changes no other hint.
C10_SetUrgency ==
    [][result'.op = "set_urgency"
       => LET n == result'.n
              level == result'.args[1] IN
          IF level \notin {0, 1, 2}
            THEN result'.raised = "ValueError" /\ hints' = hints
            ELSE /\ result'.raised = "None"
                 /\ "urgency" \in DOMAIN hints'[n]
                 /\ hints'[n]["urgency"] = [type |-> "byte", value |-> level]
                 /\ DOMAIN hints'[n] = DOMAIN hints[n] \cup {"urgency"}
                 /\ \A k \in DOMAIN hints[n] \ {"urgency"} :
                      hints'[n][k] = hints[n][k]
                 /\ \A m \in Notifs \ {n} : hints'[m] = hints[m]]_vars

\* C10 happens: an urgency was stored as a byte beside another hint, and a
\* later set_urgency(3) was refused.
C10_Witness ==
    /\ result.op = "set_urgency"
    /\ result.args = <<3>>
    /\ result.raised = "ValueError"
    /\ DOMAIN hints[result.n] = {"urgency", "category"}
    /\ hints[result.n]["urgency"] = [type |-> "byte", value |-> 1]

\* C11: connect() with an event other than 'closed' raises ValueError and
\* leaves every closed callback as it is; connect('closed', cb) stores cb as
\* the notification's closed callback, nothing else changes a closed
\* callback, and a NotificationClosed signal for a registered id calls the
\* callback stored last for the registered notification.
C11_ConnectClosed ==
    [][/\ (result'.op = "connect" /\ result'.key # "closed")
          => /\ result'.raised = "ValueError"
             /\ UNCHANGED Notification_closed_callback
       /\ (result'.op = "connect" /\ result'.key = "closed")
          => /\ result'.raised = "None"
             /\ Notification_closed_callback' =
                  [Notification_closed_callback EXCEPT
                     ![result'.n] = result'.args[1]]
       /\ Notification_closed_callback' # Notification_closed_callback
          => result'.op = "connect" /\ result'.key = "closed"
       /\ (result'.op = "NotificationClosed"
           /\ result'.nid \in DOMAIN notifications_registry)
          => /\ result'.invoked # <<>>
             /\ result'.invoked[1].fn =
                  Notification_closed_callback[
                     notifications_registry[result'.nid]]]_vars

\* C11 happens: a closed event called a callback stored by connect(), not
\* the default no_op.
C11_Witness ==
    /\ result.op = "NotificationClosed"
    /\ Len(result.invoked) = 1
    /\ result.invoked[1].fn = "on_event_raises"
    /\ result.invoked[1].bound = "None"
    /\ Notification_closed_callback[result.n] = "on_event_raises"

\* C12: close() on a notification with id 0 sends nothing and raises nothing,
\* whatever the connection state; with id # 0 and the connection ready it
\* sends one CloseNotification for that id; it never changes an id or the
\* registry.
C12_CloseFrame ==
    [][result'.op = "close"
       => LET n == result'.n IN
          /\ id[n] = 0 => result'.sent = <<>> /\ result'.raised = "None"
          /\ (id[n] # 0 /\ initted)
             => result'.sent = <<[method |-> "CloseNotification",
                                  id |-> id[n], app |-> appname]>>
          /\ UNCHANGED <<id, notifications_registry>>]_vars

\* C12 happens: CloseNotification was sent for a registered notification,
\* which is still registered under that id.
C12_Witness ==
    /\ result.op = "close"
    /\ Len(result.sent) = 1
    /\ result.raised = "None"
    /\ result.nid \in DOMAIN notifications_registry
    /\ notifications_registry[result.nid] = result.n
    /\ id[result.n] = result.nid

\* C13: uninit() leaves initted and _have_mainloop false and dbus_obj the
\* stub, and changes neither the registry nor an id.
C13_UninitFrame ==
    [][result'.op = "uninit"
       => /\ initted' = FALSE
          /\ _have_mainloop' = FALSE
          /\ dbus_obj' = Stub
          /\ UNCHANGED <<notifications_registry, id>>]_vars

\* C13 happens: uninit() from the state with events, the registry holding an
\* entry.
C13_Witness ==
    /\ result.op = "uninit"
    /\ ~initted
    /\ notifications_registry # EmptyMap
    /\ \E n \in Notifs : id[n] # 0

\* C14: every registry entry points to a notification whose most recent
\* show() ran with _have_mainloop true.  Entries and most recent shows
\* change with show() only, so this holds in every state exactly when every
\* step keeps it: an entry is set only by a show() of that notification with
\* _have_mainloop true, and after a show() with _have_mainloop false no entry
\* points to the notification shown.
C14_EntriesShownWithEvents ==
    [][/\ \A k \in DOMAIN notifications_registry' :
            (\/ k \notin DOMAIN notifications_registry
             \/ notifications_registry'[k] # notifications_registry[k])
            => /\ result'.op = "show"
               /\ result'.n = notifications_registry'[k]
               /\ _have_mainloop
       /\ (result'.op = "show" /\ result'.raised = "None" /\ ~_have_mainloop)
          => \A k \in DOMAIN notifications_registry' :
               notifications_registry'[k] # result'.n]_vars

\* C15: a show() whose Notify fails while the connection is ready raises the
\* error, has sent Notify once, and leaves every id and the registry as they
\* are.
C15_ShowFailure ==
    [][(result'.op = "show" /\ initted /\ result'.raised # "None")
       => /\ result'.raised = "DBusException"
          /\ Len(result'.sent) = 1
          /\ result'.sent[1].method = "Notify"
          /\ UNCHANGED <<id, notifications_registry>>]_vars

\* C15 happens: a show() of a registered notification failed.
C15_Witness ==
    /\ result.op = "show"
    /\ result.raised = "DBusException"
    /\ id[result.n] # 0
    /\ id[result.n] \in DOMAIN notifications_registry
    /\ result.sent[1].id = id[result.n]

\* C16: the registry changes only in a successful show() with _have_mainloop
\* true and in the dispatch of a closed event; it is empty as long as no
\* init() has found a main loop (no receiver was ever subscribed).
C16_RegistryWriters ==
    [][/\ notifications_registry' # notifications_registry
          => \/ /\ result'.op = "show"
                /\ result'.raised = "None"
                /\ _have_mainloop
             \/ result'.op = "NotificationClosed"
       /\ receivers' = 0 => notifications_registry' = EmptyMap]_vars

\* C16 happens: a successful show() without a main loop, nothing registered.
C16_Witness ==
    /\ result.op = "show"
    /\ result.raised = "None"
    /\ ~_have_mainloop
    /\ receivers = 0
    /\ id[result.n] = result.nid
    /\ notifications_registry = EmptyMap

\* C17: a signal is dispatched once: one handler per signal is subscribed
\* while events are enabled, and never more than one.
C17_OneDispatchPerSignal ==
    /\ receivers <= 1
    /\ _have_mainloop => receivers = 1

\* C18: an ActionInvoked signal for a registered id with a key that is not in
\* the registered notification's actions calls no callback, raises nothing
\* and changes neither the registry nor a notification.
C18_UnknownKeyIgnored ==
    [][(/\ result'.op = "ActionInvoked"
        /\ result'.nid \in DOMAIN notifications_registry
        /\ result'.key \notin
             DOMAIN actions[notifications_registry[result'.nid]])
       => /\ result'.invoked = <<>>
          /\ result'.raised = "None"
          /\ UNCHANGED <<notifications_registry, id, actions,
                         Notification_closed_callback, hints>>]_vars

\* C18 happens: a stale key arrived for a registered notification that has
\* an action under another key.
C18_Witness ==
    /\ result.op = "ActionInvoked"
    /\ result.n \in Notifs
    /\ result.key = "stale"
    /\ DOMAIN actions[result.n] = {"ok"}
    /\ result.invoked = <<>>
    /\ result.raised = "None"

\* C19: when the closed callback of the registered notification raises, the
\* exception leaves _closed_callback and the registry is as it was, the entry
\* of the id included; a closed event for an id in the registry always calls
\* the callback of the notification registered under it.
C19_RaisingClosedCallback ==
    [][(result'.op = "NotificationClosed"
        /\ result'.nid \in DOMAIN notifications_registry)
       => LET n == notifications_registry[result'.nid] IN
          /\ Len(result'.invoked) = 1
          /\ result'.invoked[1].fn = Notification_closed_callback[n]
          /\ Notification_closed_callback[n] \in Raising
             => /\ result'.raised = "CallbackError"
                /\ UNCHANGED notifications_registry]_vars

\* C19 happens: the callback raised and the entry of the closed id is still
\* in the registry.
C19_Witness ==
    /\ result.op = "NotificationClosed"
    /\ result.raised = "CallbackError"
    /\ result.nid \in DOMAIN notifications_registry
    /\ notifications_registry[result.nid] = result.n
    /\ Notification_closed_callback[result.n] \in Raising

\* C20: show() removes no registry entry and changes no entry but the one
\* under the id it received; a closed event for any id in the registry, the
\* notification's present id or an earlier one, calls the closed callback of
\* the notification registered under it.
C20_ShowKeepsOldEntries ==
    [][/\ result'.op = "show"
          => \A k \in DOMAIN notifications_registry :
               /\ k \in DOMAIN notifications_registry'
               /\ k # result'.nid
                  => notifications_registry'[k] = notifications_registry[k]
       /\ (result'.op = "NotificationClosed"
           /\ result'.nid \in DOMAIN notifications_registry)
          => /\ Len(result'.invoked) = 1
             /\ result'.invoked[1].args =
                  <<notifications_registry[result'.nid]>>
             /\ result'.n = notifications_registry[result'.nid]]_vars

\* C20 happens: a notification registered under two ids got the closed event
\* of the id it no longer holds, and its callback was called.
C20_Witness ==
    /\ result.op = "NotificationClosed"
    /\ result.n \in Notifs
    /\ Len(result.invoked) = 1
    /\ result.nid # id[result.n]
    /\ id[result.n] \in DOMAIN notifications_registry
    /\ notifications_registry[id[result.n]] = result.n
    /\ result.nid \in DOMAIN result.invoked[1].registry
    /\ result.invoked[1].registry[id[result.n]] = result.n

====
